---- MODULE Spec2Model ----
(***************************************************************************)
(* Model of function_app.py: the Resmi Gazete extractor (scrape_resmigazete *)
(* and its helpers), the script-mode run that writes the dated artifact,    *)
(* and the GET /scrape endpoint that serves the latest stored snapshot.     *)
(*                                                                         *)
(* Text is a sequence of characters.  A character is a one-element token:   *)
(* ASCII characters stand for themselves, and the non-ASCII characters of   *)
(* the Turkish alphabet are written "o:" (o-umlaut), "g~" (soft g), "s,"    *)
(* (s-cedilla), "u:" , "c," , "i!" (dotless i), "I." (capital dotted I),    *)
(* "i^" (i-circumflex) and "^." (U+0307 combining dot above); "NL" and      *)
(* "TAB" are the newline and the tab.                                       *)
(***************************************************************************)
EXTENDS Integers, Sequences, FiniteSets, TLC

VARIABLES
    title, kategori, cpc,                       \* classification of one title
    site, clock, pc, page, i, today_str, rows,  \* script-mode runs
    log,
    data, srcOk, files, written, runs,
    blobs, response, failed                     \* GET /scrape

classifyVars == <<title, kategori, cpc>>
runVars == <<site, clock, pc, page, i, today_str, rows, log, data, srcOk, files, written, runs>>
serveVars == <<blobs, response, failed>>
vars == <<title, kategori, cpc, site, clock, pc, page, i, today_str, rows, log,
          data, srcOk, files, written, runs, blobs, response, failed>>

----------------------------------------------------------------------------
(* Bounds *)
MaxWords == 2
MaxElems == 2
MaxDay == 2
MaxRuns == 2
MaxBlobs == 2
MaxTime == 2

----------------------------------------------------------------------------
(* Configuration and keyword tables *)

BLACKLIST == {
    <<"G", "e", "n", "e", "l", " ", "A", "r", "a", "m", "a">>,
    <<"A", "r", "s,", "i", "v">>,
    <<"M", "u:", "k", "e", "r", "r", "e", "r", " ", "A", "r", "s,", "i", "v", "i">>,
    <<"R", "e", "s", "m", "i^", " ", "G", "a", "z", "e", "t", "e", " ", "T", "a", "r", "i", "h", "c,", "e", "s", "i">>,
    <<"R", "e", "s", "m", "i^", " ", "G", "a", "z", "e", "t", "e", " ", "M", "e", "v", "z", "u", "a", "t", "i!">>,
    <<"M", "e", "v", "z", "u", "a", "t", " ", "B", "i", "l", "g", "i", " ", "S", "i", "s", "t", "e", "m", "i">>,
    <<"0", " ", "(", "3", "1", "2", ")", " ", "5", "2", "5", " ", "3", "4", "2", "7">>,
    <<"B", "i", "z", "e", " ", "U", "l", "a", "s,", "i!", "n">>,
    <<"H", "a", "r", "i", "t", "a", "d", "a", " ", "g", "o:", "s", "t", "e", "r">> }

DEGISIKLIK_KEYWORDS == {
    <<"d", "e", "g~", "i", "s,", "i", "k", "l", "i", "g~", "i">>,
    <<"d", "e", "g~", "i", "s,", "t", "i", "r", "i", "l", "m", "e", "s", "i", "n", "e">>,
    <<"d", "e", "g~", "i", "s,", "i", "k", "l", "i", "k", " ", "y", "a", "p", "i!", "l", "m", "a", "s", "i!", "n", "a">>,
    <<"d", "e", "g~", "i", "s,", "t", "i", "r", "i", "l", "m", "i", "s,">> }

YonetmelikKeywords ==
    { <<"y", "o:", "n", "e", "t", "m", "e", "l", "i", "k">>,
      <<"y", "o", "n", "e", "t", "m", "e", "l", "i", "k">> }
TebligKeywords ==
    { <<"t", "e", "b", "l", "i", "g~">>, <<"t", "e", "b", "l", "i", "g">> }
KararKeywords == { <<"k", "a", "r", "a", "r">> }
IlanKeywords == { <<"i", "l", "a", "n">> }
TarihliVe == <<"t", "a", "r", "i", "h", "l", "i", " ", "v", "e">>

----------------------------------------------------------------------------
(* String primitives of the Python runtime *)

Whitespace == {" ", "NL", "TAB"}

\* Unicode full case folding, character by character: an upper-case letter
\* folds to its lower-case letter, and U+0130 (capital dotted I) folds to
\* the two characters "i" U+0307; everything else folds to itself.
FoldTable ==
    [c \in {"A","B","C","D","E","F","G","H","I","J","K","L","M","N","O","P",
            "Q","R","S","T","U","V","W","X","Y","Z",
            "O:","G~","S,","U:","C,","I^","I."} |->
        CASE c = "A" -> <<"a">> [] c = "B" -> <<"b">> [] c = "C" -> <<"c">>
          [] c = "D" -> <<"d">> [] c = "E" -> <<"e">> [] c = "F" -> <<"f">>
          [] c = "G" -> <<"g">> [] c = "H" -> <<"h">> [] c = "I" -> <<"i">>
          [] c = "J" -> <<"j">> [] c = "K" -> <<"k">> [] c = "L" -> <<"l">>
          [] c = "M" -> <<"m">> [] c = "N" -> <<"n">> [] c = "O" -> <<"o">>
          [] c = "P" -> <<"p">> [] c = "Q" -> <<"q">> [] c = "R" -> <<"r">>
          [] c = "S" -> <<"s">> [] c = "T" -> <<"t">> [] c = "U" -> <<"u">>
          [] c = "V" -> <<"v">> [] c = "W" -> <<"w">> [] c = "X" -> <<"x">>
          [] c = "Y" -> <<"y">> [] c = "Z" -> <<"z">>
          [] c = "O:" -> <<"o:">> [] c = "G~" -> <<"g~">> [] c = "S," -> <<"s,">>
          [] c = "U:" -> <<"u:">> [] c = "C," -> <<"c,">> [] c = "I^" -> <<"i^">>
          [] c = "I." -> <<"i", "^.">>]

RECURSIVE casefold(_)
casefold(s) ==
    IF s = <<>> THEN <<>>
    ELSE (IF Head(s) \in DOMAIN FoldTable THEN FoldTable[Head(s)] ELSE <<Head(s)>>)
         \o casefold(Tail(s))

\* str.lower(): the same mapping on this alphabet (U+0130 lowers to "i" U+0307)
RECURSIVE lower(_)
lower(s) ==
    IF s = <<>> THEN <<>>
    ELSE (IF Head(s) \in DOMAIN FoldTable THEN FoldTable[Head(s)] ELSE <<Head(s)>>)
         \o lower(Tail(s))

\* the Python operator  kw in t  on strings
Contains(t, kw) ==
    \E p \in 0..(Len(t) - Len(kw)) : SubSeq(t, p + 1, p + Len(kw)) = kw

RECURSIVE lstrip(_)
lstrip(s) ==
    IF s # <<>> /\ Head(s) \in Whitespace THEN lstrip(Tail(s)) ELSE s

RECURSIVE rstrip(_)
rstrip(s) ==
    IF s # <<>> /\ s[Len(s)] \in Whitespace THEN rstrip(SubSeq(s, 1, Len(s) - 1)) ELSE s

strip(s) == rstrip(lstrip(s))

\* re.sub(r"\s+", " ", s): every maximal run of whitespace becomes one space
RECURSIVE collapse(_)
collapse(s) ==
    IF s = <<>> THEN <<>>
    ELSE IF Head(s) \in Whitespace
         THEN <<" ">> \o collapse(lstrip(s))
         ELSE <<Head(s)>> \o collapse(Tail(s))

----------------------------------------------------------------------------
(* Helpers of function_app.py *)

_temizle(metin) == strip(collapse(metin))

_classify(baslik) ==
    LET t == casefold(baslik) IN
    IF \E kw \in YonetmelikKeywords : Contains(t, kw) THEN "Yonetmelik"
    ELSE IF \E kw \in TebligKeywords : Contains(t, kw) THEN "Teblig"
    ELSE IF \E kw \in KararKeywords : Contains(t, kw) THEN "Karar"
    ELSE IF \E kw \in IlanKeywords : Contains(t, kw) THEN "Ilan"
    ELSE "Diger"

classify_yonetmelik(t) ==
    LET title_lower == lower(t) IN
    IF \E kw \in DEGISIKLIK_KEYWORDS : Contains(title_lower, kw)
    THEN "Degisiklik" ELSE "Yeni"

----------------------------------------------------------------------------
(* Inputs of one extraction run *)

\* hrefs of the sampled elements: relative paths, by name and length
NoHref == [set |-> FALSE, id |-> "", len |-> 0]
ShortHref == [set |-> TRUE, id |-> "eskiler/2025/01/20250101-1.htm", len |-> 30]
LongHref == [set |-> TRUE, id |-> "eskiler/long", len |-> 2048]

\* the <a> and <td> elements a homepage is made of: tag, text nodes, href
Elements == {
    [tag |-> "a", href |-> ShortHref, strings |-> << <<"D", "e", "g~", "i", "s,", "i", "k", "l", "i", "k", " ", "Y", "a", "p", "i!", "l", "m", "a", "s", "i!", "n", "a", " ", "D", "a", "i", "r", " ", "Y", "o:", "n", "e", "t", "m", "e", "l", "i", "k">> >>],
    [tag |-> "a", href |-> LongHref, strings |-> << <<"D", "e", "g~", "i", "s,", "i", "k", "l", "i", "k", " ", "Y", "a", "p", "i!", "l", "m", "a", "s", "i!", "n", "a", " ", "D", "a", "i", "r", " ", "Y", "o:", "n", "e", "t", "m", "e", "l", "i", "k">> >>],
    [tag |-> "a", href |-> ShortHref, strings |-> << <<"NL", " ", "Y", "o:", "n", "e", "t", "m", "e", "l", "i", "k", " ">> >>],
    [tag |-> "a", href |-> ShortHref, strings |-> << <<"2", "0", "2", "4", "/", "1", "2", "3", " ">>, <<"s", "a", "y", "i!", "l", "i!", " ", "K", "a", "r", "a", "r", "NL">> >>],
    [tag |-> "a", href |-> ShortHref, strings |-> << <<" ", "a", "b", "c", " ">> >>],
    [tag |-> "a", href |-> ShortHref, strings |-> << <<"a", " ", "NL", " ", "b">> >>],
    [tag |-> "td", href |-> NoHref, strings |-> << <<"K", "u", "r", "u", "l", " ", "K", "a", "r", "a", "r", "i!">> >>],
    [tag |-> "a", href |-> ShortHref, strings |-> << <<"A", "r", "s,", "i", "v">> >>],
    [tag |-> "a", href |-> ShortHref, strings |-> << <<"1", " ", "O", "c", "a", "k", " ", "2", "0", "2", "5", " ", "T", "a", "r", "i", "h", "l", "i", " ", "v", "e", " ", "3", "2", "7", "6", "9", " ", "S", "a", "y", "i!", "l", "i!">> >>] }

\* the homepages the site may serve, as soup.find_all(["a", "td"]) lists them
\* in document order; one issue of the gazette is on line through a behaviour
Pages == UNION { [1..n -> Elements] : n \in 0..MaxElems }

\* character counts of the visible text a detail page may hold
DetailLens == {1500, 2500}

\* what a GET may come back with
SourceErrors == {"ConnectionError", "ReadTimeout", "HTTPError"}
DetailResponses ==
    { [ok |-> TRUE, len |-> n, exc |-> ""] : n \in DetailLens }
    \cup { [ok |-> FALSE, len |-> 0, exc |-> x] : x \in {"ReadTimeout", "HTTPError"} }

MaxText == 2000
BaseUrlLen == 31
MarkerLen == 24
HTTPErrorLen == 37
ReadTimeoutLen == 95

----------------------------------------------------------------------------
(* Extractor *)

\* datetime.utcnow().strftime("%d.%m.%Y"); the clock counts days, day 1
\* being 30.12.2024
strftime(c) ==
    IF c <= 2 THEN <<29 + c, 12, 2024>> ELSE <<c - 2, 1, 2025>>

\* tag.get_text(strip=True): the text nodes, each stripped, the empty ones
\* left out, joined with no separator
RECURSIVE get_text(_)
get_text(strings) ==
    IF strings = <<>> THEN <<>>
    ELSE strip(Head(strings)) \o get_text(Tail(strings))

\* urljoin(url, href) for a relative path under the base URL
urljoin(href) == [id |-> href.id, len |-> BaseUrlLen + href.len]

\* len(str(e)) of the exception a failed GET of link raises
ExcLen(exc, link) ==
    IF exc = "HTTPError" THEN HTTPErrorLen + link.len ELSE ReadTimeoutLen

\* faulty variant: a failed fetch yields an empty text instead of the marker
extract_text_mut(link, resp) ==
    [kind |-> "text", of |-> link.id,
     len |-> IF resp.ok THEN (IF resp.len > MaxText THEN MaxText ELSE resp.len) ELSE 0]

extract_text_from_page(link, resp) ==
    IF ~resp.ok
    THEN [kind |-> "Hata", of |-> link.id, len |-> MarkerLen + ExcLen(resp.exc, link)]
    ELSE [kind |-> "text", of |-> link.id,
          len |-> IF resp.len > MaxText THEN MaxText ELSE resp.len]

\* the filters of the loop body: TRUE when the element is skipped
Skipped(tag) ==
    LET baslik == get_text(tag.strings) IN
    \/ Len(baslik) < 5
    \/ ~(tag.href.set /\ tag.href.len > 0)
    \/ Contains(lower(baslik), TarihliVe)
    \/ baslik \in BLACKLIST

NeedsDetail(tag) ==
    /\ ~Skipped(tag)
    /\ _classify(get_text(tag.strings)) = "Yonetmelik"
    /\ classify_yonetmelik(get_text(tag.strings)) = "Degisiklik"

\* faulty variant: a regulation always gets the link
MakeRowMut(tag, today, resp) ==
    LET baslik == get_text(tag.strings)
        link == urljoin(tag.href)
        kat == _classify(baslik)
        row == [Tarih |-> today, Kategori |-> kat, Baslik |-> baslik]
    IN  IF kat = "Yonetmelik"
        THEN ("YonetmelikTuru" :> classify_yonetmelik(baslik)) @@ ("Link" :> link) @@
             (IF classify_yonetmelik(baslik) = "Yeni" THEN row
              ELSE ("TamMetin" :> extract_text_from_page(link, resp)) @@ row)
        ELSE ("Link" :> link) @@ row

\* the row built for an element that passed the filters
MakeRow(tag, today, resp) ==
    LET baslik == get_text(tag.strings)
        link == urljoin(tag.href)
        kategori_ == _classify(baslik)
        row == [Tarih |-> today, Kategori |-> kategori_, Baslik |-> baslik]
    IN  IF kategori_ = "Yonetmelik"
        THEN LET yonetmelik_turu == classify_yonetmelik(baslik)
                 row2 == ("YonetmelikTuru" :> yonetmelik_turu) @@ row
             IN IF yonetmelik_turu = "Yeni"
                THEN ("Link" :> link) @@ row2
                ELSE ("TamMetin" :> extract_text_from_page(link, resp)) @@ row2
        ELSE ("Link" :> link) @@ row

NoResp == [ok |-> TRUE, len |-> 0, exc |-> ""]

\* s.get(url) succeeded: parse the page and stamp the date
FetchSourceOk ==
    /\ pc = "idle"
    /\ page' = site
    /\ today_str' = strftime(clock)
    /\ rows' = <<>> /\ log' = <<>> /\ i' = 1
    /\ pc' = "loop"
    /\ UNCHANGED <<site, clock, data, srcOk, files, written, runs>>

\* s.get(url) raised a RequestException: return the one-element error list
FetchSourceFail ==
    /\ pc = "idle"
    /\ \E e \in SourceErrors : data' = << [error |-> e] >>
    /\ srcOk' = FALSE
    /\ pc' = "write"
    /\ UNCHANGED <<site, clock, files, page, today_str, rows, log, i, written, runs>>

\* one iteration of  for tag in soup.find_all(["a", "td"])
ProcessElement ==
    /\ pc = "loop" /\ i <= Len(page)
    /\ LET tag == page[i] IN
       IF Skipped(tag)
       THEN UNCHANGED <<rows, log>>
       ELSE IF NeedsDetail(tag)
            THEN \E resp \in DetailResponses :
                    /\ rows' = Append(rows, MakeRow(tag, today_str, resp))
                    /\ log' = Append(log, [elem |-> i, fetch |-> IF resp.ok THEN "ok" ELSE "fail"])
            ELSE /\ rows' = Append(rows, MakeRow(tag, today_str, NoResp))
                 /\ log' = Append(log, [elem |-> i, fetch |-> "none"])
    /\ i' = i + 1
    /\ UNCHANGED <<site, clock, pc, page, today_str, data, srcOk, files, written, runs>>

\* return rows
ReturnRows ==
    /\ pc = "loop" /\ i > Len(page)
    /\ data' = rows
    /\ pc' = "write"
    /\ UNCHANGED <<site, clock, page, i, today_str, rows, log, srcOk, files, written, runs>>

\* script mode: stamp the file name and dump data into it; the process ends
WriteArtifact ==
    /\ pc = "write"
    /\ LET filename == strftime(clock) IN
        /\ files' = (filename :> data) @@ files
        /\ written' = filename
    /\ pc' = "done"
    /\ page' = <<>> /\ rows' = <<>> /\ log' = <<>> /\ i' = 1 /\ today_str' = <<>>
    /\ UNCHANGED <<site, clock, data, srcOk, runs>>

\* midnight UTC passes
Tick ==
    /\ clock < MaxDay
    /\ clock' = clock + 1
    /\ UNCHANGED <<site, pc, page, i, today_str, rows, log, data, srcOk, files, written, runs>>

Init ==
    /\ site \in Pages
    /\ clock = 1 /\ pc = "idle" /\ page = <<>> /\ i = 1 /\ today_str = <<>>
    /\ rows = <<>> /\ log = <<>> /\ data = <<>> /\ srcOk = TRUE
    /\ files = <<>> /\ written = <<>> /\ runs = 1
    /\ title = <<>> /\ kategori = "" /\ cpc = "off"
    /\ blobs = <<>> /\ response = [status_code |-> 0, body |-> <<>>] /\ failed = ""

Next ==
    \/ (FetchSourceOk /\ UNCHANGED classifyVars /\ UNCHANGED serveVars)
    \/ (FetchSourceFail /\ UNCHANGED classifyVars /\ UNCHANGED serveVars)
    \/ (ProcessElement /\ UNCHANGED classifyVars /\ UNCHANGED serveVars)
    \/ (ReturnRows /\ UNCHANGED classifyVars /\ UNCHANGED serveVars)
    \/ (WriteArtifact /\ UNCHANGED classifyVars /\ UNCHANGED serveVars)
    \/ (Tick /\ UNCHANGED classifyVars /\ UNCHANGED serveVars)

Spec == Init /\ [][Next]_vars

\* the script is started again, by the schedule or by hand
Invoke ==
    /\ pc = "done" /\ runs < MaxRuns
    /\ runs' = runs + 1
    /\ pc' = "idle"
    /\ data' = <<>> /\ srcOk' = TRUE /\ written' = <<>>
    /\ UNCHANGED <<site, clock, page, i, today_str, rows, log, files>>

NextDaily ==
    \/ Next
    \/ (Invoke /\ UNCHANGED classifyVars /\ UNCHANGED serveVars)

SpecDaily == Init /\ [][NextDaily]_vars

----------------------------------------------------------------------------
(* Classification of one title *)

Words == {
    <<"Y", "o:", "n", "e", "t", "m", "e", "l", "i", "k">>,
    <<"Y", "O:", "N", "E", "T", "M", "E", "L", "I.", "K">>,
    <<"y", "o", "n", "e", "t", "m", "e", "l", "i", "k">>,
    <<"T", "e", "b", "l", "i", "g~">>,
    <<"T", "E", "B", "L", "I.", "G~">>,
    <<"K", "a", "r", "a", "r">>,
    <<"K", "A", "R", "A", "R">>,
    <<"I.", "l", "a", "n">>,
    <<"i", "l", "a", "n">>,
    <<"I", "L", "A", "N">>,
    <<"G", "e", "n", "e", "l", "g", "e">>,
    <<" ">> }

RECURSIVE Flatten(_)
Flatten(ws) == IF ws = <<>> THEN <<>> ELSE Head(ws) \o Flatten(Tail(ws))

\* titles made of one to MaxWords words
Titles == { Flatten(ws) : ws \in UNION { [1..n -> Words] : n \in 1..MaxWords } }

InitClassify ==
    /\ title \in Titles /\ kategori = "" /\ cpc = "input"
    /\ site = <<>> /\ clock = 1 /\ pc = "off" /\ page = <<>> /\ i = 1
    /\ today_str = <<>> /\ rows = <<>> /\ log = <<>> /\ data = <<>>
    /\ srcOk = TRUE /\ files = <<>> /\ written = <<>> /\ runs = 0
    /\ blobs = <<>> /\ response = [status_code |-> 0, body |-> <<>>] /\ failed = ""

\* kategori = _classify(baslik)
Classify ==
    /\ cpc = "input"
    /\ kategori' = _classify(title)
    /\ cpc' = "done"
    /\ UNCHANGED title

NextClassify == Classify /\ UNCHANGED runVars /\ UNCHANGED serveVars

SpecClassify == InitClassify /\ [][NextClassify]_vars

----------------------------------------------------------------------------
(* GET /scrape *)

BlobNames == { <<30, 12, 2024>>, <<31, 12, 2024>>, <<1, 1, 2025>> }

\* stored bytes: "[]" and "[{}]"
Contents == { <<91, 93>>, <<91, 123, 125, 93>> }

BlobProps == [name : BlobNames, last_modified : 1..MaxTime, content : Contents]

\* what the container may hold, as list_blobs() lists it: names are unique
Containers ==
    { bs \in UNION { [1..n -> BlobProps] : n \in 0..MaxBlobs } :
        \A j, k \in 1..Len(bs) : j # k => bs[j].name # bs[k].name }

\* the steps of the handler that can raise
Steps == {"environ", "from_connection_string", "list_blobs", "download_blob"}

\* faulty variant: the first of the least last_modified
LatestMut(bs) ==
    bs[CHOOSE k \in 1..Len(bs) :
        \A j \in 1..Len(bs) :
            /\ bs[k].last_modified <= bs[j].last_modified
            /\ (j < k => bs[k].last_modified < bs[j].last_modified)]

\* max(blobs, key=lambda b: b.last_modified): the first of the greatest
Latest(bs) ==
    bs[CHOOSE k \in 1..Len(bs) :
        \A j \in 1..Len(bs) :
            /\ bs[j].last_modified <= bs[k].last_modified
            /\ (j < k => bs[j].last_modified < bs[k].last_modified)]

\* faulty variant: a listing that raises is answered like an empty listing
scrape_mut(bs, raises) ==
    IF raises \in {"environ", "from_connection_string"}
    THEN [status_code |-> 500, body |-> [error |-> raises]]
    ELSE IF raises = "list_blobs" \/ bs = <<>>
    THEN [status_code |-> 404, body |-> [error |-> "No JSON files found in container."]]
    ELSE IF raises = "download_blob"
    THEN [status_code |-> 500, body |-> [error |-> raises]]
    ELSE [status_code |-> 200, body |-> Latest(bs).content]

\* the response of the handler when step raises (or none, "") throws
scrape(bs, raises) ==
    IF raises \in {"environ", "from_connection_string", "list_blobs"}
    THEN [status_code |-> 500, body |-> [error |-> raises]]
    ELSE IF bs = <<>>
    THEN [status_code |-> 404, body |-> [error |-> "No JSON files found in container."]]
    ELSE IF raises = "download_blob"
    THEN [status_code |-> 500, body |-> [error |-> raises]]
    ELSE [status_code |-> 200, body |-> Latest(bs).content]

InitServe ==
    /\ blobs \in Containers
    /\ response = [status_code |-> 0, body |-> <<>>] /\ failed = ""
    /\ title = <<>> /\ kategori = "" /\ cpc = "off"
    /\ site = <<>> /\ clock = 1 /\ pc = "off" /\ page = <<>> /\ i = 1
    /\ today_str = <<>> /\ rows = <<>> /\ log = <<>> /\ data = <<>>
    /\ srcOk = TRUE /\ files = <<>> /\ written = <<>> /\ runs = 0

\* one GET /scrape; failed records the step that raised, "none" if none did
Scrape ==
    /\ \E raises \in Steps \cup {""} :
        /\ response' = scrape(blobs, raises)
        /\ failed' = IF raises = "" \/ (raises = "download_blob" /\ blobs = <<>>)
                     THEN "none" ELSE raises
    /\ UNCHANGED blobs

NextServe == Scrape /\ UNCHANGED classifyVars /\ UNCHANGED runVars

SpecServe == InitServe /\ [][NextServe]_vars

----------------------------------------------------------------------------
(* Properties *)

\* a Record of the data model, as opposed to the {"error": ...} object
IsRecord(r) == {"Tarih", "Kategori", "Baslik"} \subseteq DOMAIN r

\* the text of an element as the page shows it: its text nodes in order
VisibleText(tag) == Flatten(tag.strings)

\* C1: when the fetch of the source page fails, a script-mode run writes no
\* artifact, or an artifact holding an empty array; the artifact it writes
\* never holds an element that is not a Record.
C1_FailedFetchWritesNoErrorElement ==
    (written # <<>> /\ ~srcOk) =>
        \A k \in 1..Len(files[written]) : IsRecord(files[written][k])

\* C4: a snapshot is write-once: once an array of Records has been written
\* under a date, no step of any run, not even of a run whose source fetch
\* succeeded, changes or removes it.
C4_WriteOnce ==
    [][srcOk' =>
        \A d \in DOMAIN files :
            (\A k \in 1..Len(files[d]) : IsRecord(files[d][k])) =>
                (d \in DOMAIN files' /\ files'[d] = files[d])]_vars

\* C5: the full-text field of a record never exceeds 2000 characters, whether
\* it holds the text of the detail page or the error marker.
C5_FullTextBounded ==
    \A k \in 1..Len(rows) :
        "TamMetin" \in DOMAIN rows[k] => rows[k].TamMetin.len <= MaxText

\* C7: no element whose visible text, stripped and with its whitespace runs
\* collapsed to one space, is shorter than 5 characters becomes a record.
C7_ShortNormalizedTextDropped ==
    \A k \in 1..Len(rows) :
        Len(_temizle(VisibleText(page[log[k].elem]))) >= 5

\* C8: a failed detail-page fetch is local to its record: every element that
\* passes the filters has its record, in document order, the record of a
\* failed fetch holds the error marker, every other record holds what its
\* own element gives, and the run goes on to the end of the page.
C8_DetailFailureLocalized ==
    /\ Len(rows) = Cardinality({j \in 1..Len(page) : j < i /\ ~Skipped(page[j])})
    /\ Len(log) = Len(rows)
    /\ \A k \in 1..Len(rows) :
        LET tag == page[log[k].elem]
            r == rows[k]
        IN  /\ ~Skipped(tag)
            /\ \A j \in 1..Len(rows) : j < k => log[j].elem < log[k].elem
            /\ r.Tarih = today_str
            /\ r.Baslik = get_text(tag.strings)
            /\ r.Kategori = _classify(r.Baslik)
            /\ log[k].fetch = "fail" =>
                 /\ "TamMetin" \in DOMAIN r /\ r.TamMetin.kind = "Hata"
                 /\ r.TamMetin.of = tag.href.id
            /\ log[k].fetch = "ok" =>
                 /\ "TamMetin" \in DOMAIN r /\ r.TamMetin.kind = "text"
                 /\ r.TamMetin.of = tag.href.id
            /\ log[k].fetch = "none" =>
                 /\ "Link" \in DOMAIN r /\ r.Link = urljoin(tag.href)
    /\ (pc = "write" /\ srcOk) => (i = Len(page) + 1 /\ data = rows)

\* a run returned both records although the detail fetch of the first failed
C8_Witness ==
    /\ pc = "write" /\ srcOk /\ Len(data) = 2
    /\ log[1].fetch = "fail" /\ log[2].fetch # "fail"

\* C9: every record carries exactly one of the link and the full text: an
\* amended regulation carries the full text, every other record the link,
\* and the subtype is present on regulations only.
C9_LinkXorFullText ==
    \A k \in 1..Len(rows) :
        LET r == rows[k]
            hasLink == "Link" \in DOMAIN r
            hasText == "TamMetin" \in DOMAIN r
            hasTuru == "YonetmelikTuru" \in DOMAIN r
        IN  /\ hasLink # hasText
            /\ hasTuru <=> (r.Kategori = "Yonetmelik")
            /\ hasText <=> (hasTuru /\ r.YonetmelikTuru = "Degisiklik")
            /\ hasTuru => r.YonetmelikTuru \in {"Yeni", "Degisiklik"}

\* a run produced an amended regulation and a new regulation
C9_Witness ==
    /\ pc = "write" /\ Len(rows) = 2
    /\ "TamMetin" \in DOMAIN rows[1]
    /\ "Link" \in DOMAIN rows[2] /\ rows[2].Kategori = "Yonetmelik"

\* C10: the date in the key of a written artifact is the date of every
\* record in it.
C10_KeyDateIsRecordDate ==
    written # <<>> =>
        \A k \in 1..Len(files[written]) :
            IsRecord(files[written][k]) => files[written][k].Tarih = written


\* the characters that are the letter k in some letter case: k itself, the
\* characters that fold to it, and for "i" the capital dotted I
LetterCases(k) ==
    {k} \cup {u \in DOMAIN FoldTable : FoldTable[u] = <<k>>}
        \cup (IF k = "i" THEN {"I."} ELSE {})

OccursAnyCase(t, kw) ==
    \E p \in 0..(Len(t) - Len(kw)) :
        \A j \in 1..Len(kw) : t[p + j] \in LetterCases(kw[j])

\* C6: the category of a title is that of the first keyword set, in the
\* order regulation, communique, decision, notice, that has a keyword
\* occurring in the title in any letter case, and Other when none has.
C6_FirstMatchAnyCase ==
    cpc = "done" =>
        kategori =
            IF \E kw \in YonetmelikKeywords : OccursAnyCase(title, kw) THEN "Yonetmelik"
            ELSE IF \E kw \in TebligKeywords : OccursAnyCase(title, kw) THEN "Teblig"
            ELSE IF \E kw \in KararKeywords : OccursAnyCase(title, kw) THEN "Karar"
            ELSE IF \E kw \in IlanKeywords : OccursAnyCase(title, kw) THEN "Ilan"
            ELSE "Diger"

\* C2: a request that finds the container empty is answered 404 with an
\* error object; a request in which a storage step raised is answered 500
\* with an error object, never 404.
C2_NotFoundVersusFailure ==
    response.status_code # 0 =>
        /\ (failed = "none" /\ blobs = <<>>) =>
             (response.status_code = 404 /\ DOMAIN response.body = {"error"})
        /\ failed \in Steps =>
             (response.status_code = 500 /\ DOMAIN response.body = {"error"})
        /\ response.status_code = 404 => (failed = "none" /\ blobs = <<>>)

\* listing raised on an empty container and the answer was 500
C2_Witness ==
    blobs = <<>> /\ failed = "list_blobs" /\ response.status_code = 500

\* C3: over a non-empty container a request in which nothing raised is
\* answered 200, and the body of a 200 answer is the stored content of a
\* snapshot whose last_modified is the greatest, whatever the dates in the
\* names.
C3_LatestByTimestamp ==
    /\ (response.status_code # 0 /\ failed = "none" /\ blobs # <<>>) =>
          response.status_code = 200
    /\ response.status_code = 200 =>
          \E k \in 1..Len(blobs) :
              /\ \A j \in 1..Len(blobs) : blobs[j].last_modified <= blobs[k].last_modified
              /\ response.body = blobs[k].content

\* the snapshot written last carries the earlier date and other bytes
C3_Witness ==
    /\ response.status_code = 200 /\ Len(blobs) = 2
    /\ blobs[1].name = <<1, 1, 2025>> /\ blobs[2].name = <<31, 12, 2024>>
    /\ blobs[1].last_modified < blobs[2].last_modified
    /\ blobs[1].content # blobs[2].content
    /\ response.body = blobs[2].content

====
